---- MODULE Spec2Model ----
(***************************************************************************)
(* Model of src/index.js: the WhatsApp session lifecycle (module state,    *)
(* adapter event handlers, recovery timers) and the HTTP request handlers. *)
(* The adapter (whatsapp-web.js Client), the file system and the QR        *)
(* encoder are the environment: every call into them draws its outcome     *)
(* (returns, throws synchronously, rejects later) from the outcomes the    *)
(* handler's own try/catch structure distinguishes.                        *)
(***************************************************************************)
EXTENDS Naturals, Integers, Sequences, FiniteSets, TLC

\* ---------------------------------------------------------------- bounds
MaxInst == 2      \* adapter instances ever constructed
MaxPending == 2   \* tasks waiting in the event loop: timers, suspended handlers
MaxContacts == 2  \* contacts in a list drawn from the pool (the crowd apart)
MaxLen == 3       \* characters of a number given to toWhatsAppId

\* ------------------------------------------------------- program constants
LOGOUT_DELAY == 3000
REINIT_DELAY == 5000
RESTART_DELAY == 2000

Inst == 1..MaxInst
\* QR payloads are opaque to the program; two tell the latest from an older one
QRPayloads == {"qrA", "qrB"}
NoQR == "null"    \* lastQR = null
Reasons == {"LOGOUT", "NAVIGATION", "CONFLICT", "OTHER"}
\* outcome of a call into the adapter: returns (a promise that resolves),
\* throws synchronously, or returns a promise that rejects
CallOutcomes == {"ok", "throw", "reject"}

VARIABLES
  isReady,          \* index.js:25
  isAuthenticated,  \* index.js:26
  lastQR,           \* index.js:27 (NoQR = null)
  client,           \* index.js:28, the current adapter handle
  status,           \* per instance: "none" | "built" | "live" | "destroyed"
  wired,            \* per instance: are the handlers of wireClientEvents attached
  sessionData,      \* does SESSION_PATH/whatsapp-web.js exist on disk
  timers,           \* pending setTimeout callbacks, in creation order
  conts,            \* per instance: LOGOUT handlers suspended at `await c.destroy()`
  reqs,             \* requests suspended at an await on the adapter
  crashed,          \* the process died of an uncaught exception / unhandled rejection
  last,             \* what the last step did (observation of the step)
  qrSeen,           \* payload of the most recent `qr` event handled (NoQR: none)
  sinceReady,       \* a `ready` event was handled and no `qr` event since
  readyPeriod,      \* a `ready` event was handled and no disconnect / restart since
  sinceRestart,     \* /restart was served and no `ready` / `authenticated` event since
  faulty            \* a lifecycle call (constructor, initialize, destroy, rmSync) failed

vars == <<isReady, isAuthenticated, lastQR, client, status, wired, sessionData,
          timers, conts, reqs, crashed, last, qrSeen, sinceReady, readyPeriod,
          sinceRestart, faulty>>

\* the observation record of a step
\* op: the handler or callback that ran; code: the HTTP status it answered
\* (0: none); inst: the adapter instance it acted for; reason: the disconnect
\* reason; call: the sendMessage / getContacts call it issued ("none": none);
\* env: how the environment's calls ended; data: what it answered or sent
Obs(op, code, inst, reason, call, env, data) ==
  [op |-> op, code |-> code, inst |-> inst, reason |-> reason,
   call |-> call, env |-> env, data |-> data]

\* ------------------------------------------------------------------ strings
\* a string is a sequence of one-character strings; null, undefined and ""
\* are the empty sequence (all three are falsy and stringify to no digits)
Null == <<>>
Truthy(s) == s # <<>>
Digits == {"0", "1", "2", "3", "4", "5", "6", "7", "8", "9"}
IsDigit(ch) == ch \in Digits
IsSpace(ch) == ch = " "
UpperCase == <<"A", "B", "C", "D", "E", "F", "G", "H", "I", "J", "K", "L", "M",
               "N", "O", "P", "Q", "R", "S", "T", "U", "V", "W", "X", "Y", "Z">>
LowerCase == <<"a", "b", "c", "d", "e", "f", "g", "h", "i", "j", "k", "l", "m",
               "n", "o", "p", "q", "r", "s", "t", "u", "v", "w", "x", "y", "z">>
LowerOf ==
  [ch \in {UpperCase[k] : k \in 1..Len(UpperCase)} |->
     LowerCase[CHOOSE k \in 1..Len(UpperCase) : UpperCase[k] = ch]]
LowerChar(ch) == IF ch \in DOMAIN LowerOf THEN LowerOf[ch] ELSE ch
\* String.prototype.toLowerCase
toLowerCase(str) == [k \in 1..Len(str) |-> LowerChar(str[k])]
\* String.prototype.trim
RECURSIVE TrimStart(_)
TrimStart(str) == IF str # <<>> /\ IsSpace(Head(str)) THEN TrimStart(Tail(str)) ELSE str
RECURSIVE TrimEnd(_)
TrimEnd(str) ==
  IF str # <<>> /\ IsSpace(str[Len(str)]) THEN TrimEnd(SubSeq(str, 1, Len(str) - 1)) ELSE str
trim(str) == TrimEnd(TrimStart(str))
\* String.prototype.includes
includes(hay, needle) ==
  \E k \in 0..(Len(hay) - Len(needle)) : SubSeq(hay, k + 1, k + Len(needle)) = needle

\* ------------------------------------------------------------ adapter model
\* an instance is live when initialize() was called on it and destroy() was not since
Live(i) == status[i] = "live"
LiveSet == {i \in Inst : Live(i)}
Built == {i \in Inst : status[i] # "none"}
FreshInst == CHOOSE i \in Inst \ Built : \A j \in Inst \ Built : i <= j

\* c.initialize() returning normally
AfterInitialize(st, c) == [st EXCEPT ![c] = "live"]
\* c.destroy() returning normally
AfterDestroy(st, c) == [st EXCEPT ![c] = "destroyed"]

\* ---------------------------------------------------------------- timers
Delay(kind) ==
  CASE kind = "rebuild" -> LOGOUT_DELAY
    [] kind = "reinit" -> REINIT_DELAY
    [] kind = "restart" -> RESTART_DELAY

Timer(kind, c) == [kind |-> kind, c |-> c]

\* a timer set earlier with a delay no longer than timer i's expires before it
CanFire(i) == \A j \in 1..(i - 1) : Delay(timers[j].kind) > Delay(timers[i].kind)

RemoveAt(s, i) == SubSeq(s, 1, i - 1) \o SubSeq(s, i + 1, Len(s))

RecoveryTimers == {i \in 1..Len(timers) : timers[i].kind \in {"rebuild", "reinit"}}

RECURSIVE SumOver(_, _)
SumOver(f, S) == IF S = {} THEN 0
                 ELSE LET x == CHOOSE y \in S : TRUE IN f[x] + SumOver(f, S \ {x})

\* the tasks waiting in the event loop
Pending == Len(timers) + SumOver(conts, Inst) + Len(reqs)
\* room for one more
Room == Pending < MaxPending

\* ------------------------------------------------------ requests in flight
\* a disconnect or a restart happened while the request was suspended
Interrupt(rs) == [k \in 1..Len(rs) |-> [rs[k] EXCEPT !.interrupted = TRUE]]

Init ==
  /\ isReady = FALSE
  /\ isAuthenticated = FALSE
  /\ lastQR = NoQR
  /\ client = 1
  \* initializeClient() at load (index.js:139): initialize() returned or threw
  /\ status \in {[i \in Inst |-> IF i = 1 THEN s ELSE "none"] : s \in {"live", "built"}}
  /\ faulty = (status[1] = "built")
  /\ wired = [i \in Inst |-> i = 1]
  /\ sessionData \in BOOLEAN
  /\ timers = <<>>
  /\ conts = [i \in Inst |-> 0]
  /\ reqs = <<>>
  /\ crashed = FALSE
  /\ last = Obs("load", 0, 1, "", "none", "", <<>>)
  /\ qrSeen = NoQR
  /\ sinceReady = FALSE
  /\ readyPeriod = FALSE
  /\ sinceRestart = FALSE

\* an event of instance c reaches a handler only while the handlers are attached
Emits(c) == ~crashed /\ Live(c) /\ wired[c]

\* c.on('qr') index.js:76-80
OnQr(c, qr) ==
  /\ Emits(c)
  /\ lastQR' = qr
  /\ qrSeen' = qr
  /\ sinceReady' = FALSE
  /\ last' = Obs("qr", 0, c, "", "none", "", <<>>)
  /\ UNCHANGED <<faulty, isReady, isAuthenticated, client, status, wired, sessionData,
                 timers, conts, reqs, crashed, readyPeriod, sinceRestart>>

\* c.on('authenticated') index.js:82-85; LocalAuth persists the session (index.js:32)
OnAuthenticated(c) ==
  /\ Emits(c)
  /\ isAuthenticated' = TRUE
  /\ sessionData' = TRUE
  /\ sinceRestart' = FALSE
  /\ last' = Obs("authenticated", 0, c, "", "none", "", <<>>)
  /\ UNCHANGED <<faulty, isReady, lastQR, client, status, wired, timers, conts, reqs,
                 crashed, qrSeen, sinceReady, readyPeriod>>

\* c.on('auth_failure') index.js:87-90
OnAuthFailure(c) ==
  /\ Emits(c)
  /\ isAuthenticated' = FALSE
  /\ last' = Obs("auth_failure", 0, c, "", "none", "", <<>>)
  /\ UNCHANGED <<faulty, isReady, lastQR, client, status, wired, sessionData, timers,
                 conts, reqs, crashed, qrSeen, sinceReady, readyPeriod, sinceRestart>>

\* the value of lastQR after the `ready` handler: the handler does not touch it
ReadyLastQR(qr) == qr

\* c.on('ready') index.js:92-95
OnReady(c) ==
  /\ Emits(c)
  /\ isReady' = TRUE
  /\ lastQR' = ReadyLastQR(lastQR)
  /\ sinceReady' = TRUE
  /\ readyPeriod' = TRUE
  /\ sinceRestart' = FALSE
  /\ last' = Obs("ready", 0, c, "", "none", "", <<>>)
  /\ UNCHANGED <<faulty, isAuthenticated, client, status, wired, sessionData, timers,
                 conts, reqs, crashed, qrSeen>>

\* clearSessionData() index.js:63-73: removes the directory when it exists; a
\* throwing rmSync is caught and logged, and the data stays
clearSessionData(sd, rm) == IF sd /\ rm = "ok" THEN FALSE ELSE sd

\* index.js:102
IsLogout(reason) == reason = "LOGOUT"

\* an early return that forgets CONFLICT
NoAutoRecover_navOnly(reason) == reason = "NAVIGATION"

\* index.js:113
NoAutoRecover(reason) == reason = "NAVIGATION" \/ reason = "CONFLICT"

\* index.js:102-110, the LOGOUT branch up to its first suspension: rm is how
\* fs.rmSync ended, d how c.destroy() ended. A synchronous throw of destroy()
\* is caught before the await is reached, so the handler runs on; otherwise it
\* is suspended until the promise settles (LogoutResume)
LogoutBranch(c, reason, rm, d) ==
  /\ sessionData \/ rm = "ok"
  /\ sessionData' = clearSessionData(sessionData, rm)
  /\ IF d = "throw"
     THEN /\ Room
          /\ lastQR' = NoQR
          /\ timers' = Append(timers, Timer("rebuild", 0))
          /\ UNCHANGED <<status, conts>>
     ELSE /\ Room
          /\ status' = IF d = "ok" THEN AfterDestroy(status, c) ELSE status
          /\ conts' = [conts EXCEPT ![c] = @ + 1]
          /\ UNCHANGED <<lastQR, timers>>
  /\ faulty' = (faulty \/ rm # "ok" \/ d # "ok")
  /\ last' = Obs("disconnected", 0, c, reason, "none", <<rm, d>>, <<>>)

\* index.js:118-126, any other reason: one timer that re-initializes c
TransientBranch(c, reason) ==
  /\ Room
  /\ timers' = Append(timers, Timer("reinit", c))
  /\ last' = Obs("disconnected", 0, c, reason, "none", <<>>, <<>>)
  /\ UNCHANGED <<lastQR, status, conts, sessionData, faulty>>

\* c.on('disconnected') index.js:97-127
OnDisconnected(c, reason) ==
  /\ Emits(c)
  /\ isReady' = FALSE
  /\ isAuthenticated' = FALSE
  /\ readyPeriod' = FALSE
  /\ reqs' = Interrupt(reqs)
  /\ IF IsLogout(reason)
     THEN \E rm \in {"ok", "throw"}, d \in CallOutcomes : LogoutBranch(c, reason, rm, d)
     ELSE IF NoAutoRecover(reason)
     THEN /\ last' = Obs("disconnected", 0, c, reason, "none", <<>>, <<>>)
          /\ UNCHANGED <<lastQR, status, conts, sessionData, timers, faulty>>
     ELSE TransientBranch(c, reason)
  /\ UNCHANGED <<client, wired, crashed, qrSeen, sinceReady, sinceRestart>>

\* index.js:107-109: the LOGOUT handler of c resumes after `await c.destroy()`
\* settled (a rejection is caught)
LogoutResume(c) ==
  /\ ~crashed
  /\ conts[c] > 0
  /\ conts' = [conts EXCEPT ![c] = @ - 1]
  /\ lastQR' = NoQR
  /\ timers' = Append(timers, Timer("rebuild", 0))
  /\ last' = Obs("logoutResume", 0, c, "LOGOUT", "none", <<>>, <<>>)
  /\ UNCHANGED <<faulty, isReady, isAuthenticated, client, status, wired, sessionData,
                 reqs, crashed, qrSeen, sinceReady, readyPeriod, sinceRestart>>

\* initializeClient() index.js:50-61: b is how buildClient() ended, o how
\* initialize() ended. The listeners of the old handle are removed first; a
\* throwing constructor is not caught; a throwing initialize() is; a rejected
\* initialize() promise has no handler
InitializeClient(b, o) ==
  LET w1 == [wired EXCEPT ![client] = FALSE]
  IN IF b = "throw"
     THEN /\ wired' = w1
          /\ crashed' = TRUE
          /\ UNCHANGED <<client, status>>
     ELSE /\ Inst \ Built # {}
          /\ client' = FreshInst
          /\ wired' = [w1 EXCEPT ![FreshInst] = TRUE]
          /\ status' = IF o = "throw" THEN [status EXCEPT ![FreshInst] = "built"]
                       ELSE AfterInitialize([status EXCEPT ![FreshInst] = "built"], FreshInst)
          /\ crashed' = (o = "reject")

\* the callback set at index.js:108
TimerRebuild(i, b, o) ==
  /\ ~crashed
  /\ i \in 1..Len(timers)
  /\ timers[i].kind = "rebuild"
  /\ CanFire(i)
  /\ timers' = RemoveAt(timers, i)
  /\ InitializeClient(b, o)
  /\ faulty' = (faulty \/ b # "ok" \/ o # "ok")
  /\ last' = Obs("timerRebuild", 0, client, "", "none", <<b, o>>, <<>>)
  /\ UNCHANGED <<isReady, isAuthenticated, lastQR, sessionData, conts, reqs,
                 qrSeen, sinceReady, readyPeriod, sinceRestart>>

\* the callback set at index.js:118-126 for instance c: o is how c.initialize()
\* ended; when it throws, the catch rebuilds through initializeClient()
TimerReinit(i, o) ==
  /\ ~crashed
  /\ i \in 1..Len(timers)
  /\ timers[i].kind = "reinit"
  /\ CanFire(i)
  /\ timers' = RemoveAt(timers, i)
  /\ faulty' = (faulty \/ o # "ok")
  /\ IF o = "throw"
     THEN \E b \in {"ok", "throw"}, o2 \in CallOutcomes :
            /\ InitializeClient(b, o2)
            /\ last' = Obs("timerReinit", 0, timers[i].c, "", "none", <<o, b, o2>>, <<>>)
     ELSE /\ status' = AfterInitialize(status, timers[i].c)
          /\ crashed' = (o = "reject")
          /\ last' = Obs("timerReinit", 0, timers[i].c, "", "none", <<o>>, <<>>)
          /\ UNCHANGED <<client, wired>>
  /\ UNCHANGED <<isReady, isAuthenticated, lastQR, sessionData, conts, reqs,
                 qrSeen, sinceReady, readyPeriod, sinceRestart>>

\* the callback set at index.js:206-208: client.initialize() on whatever the
\* handle is when the timer fires, with no try/catch around it
TimerRestart(i, o) ==
  /\ ~crashed
  /\ i \in 1..Len(timers)
  /\ timers[i].kind = "restart"
  /\ CanFire(i)
  /\ timers' = RemoveAt(timers, i)
  /\ status' = IF o = "throw" THEN status ELSE AfterInitialize(status, client)
  /\ crashed' = (o # "ok")
  /\ faulty' = (faulty \/ o # "ok")
  /\ last' = Obs("timerRestart", 0, client, "", "none", <<o>>, <<>>)
  /\ UNCHANGED <<isReady, isAuthenticated, lastQR, client, wired, sessionData,
                 conts, reqs, qrSeen, sinceReady, readyPeriod, sinceRestart>>

\* a restart that resets the ready flag only
PostRestart_keepsAuth(d) ==
  /\ ~crashed
  /\ isReady' = FALSE
  /\ isAuthenticated' = isAuthenticated
  /\ lastQR' = NoQR
  /\ readyPeriod' = FALSE
  /\ sinceRestart' = (sinceRestart \/ d # "throw")
  /\ reqs' = Interrupt(reqs)
  /\ faulty' = (faulty \/ d # "ok")
  /\ IF d = "throw"
     THEN /\ last' = Obs("restart", 500, client, "", "none", <<d>>, <<>>)
          /\ UNCHANGED <<status, timers, crashed>>
     ELSE /\ Room
          /\ status' = IF d = "ok" THEN AfterDestroy(status, client) ELSE status
          /\ timers' = Append(timers, Timer("restart", 0))
          /\ crashed' = (d = "reject")
          /\ last' = Obs("restart", 200, client, "", "none", <<d>>, <<>>)
  /\ UNCHANGED <<client, wired, sessionData, conts, qrSeen, sinceReady>>

\* POST /restart index.js:199-213: d is how client.destroy() ended. The promise
\* it returns is not awaited, so only a synchronous throw reaches the catch
PostRestart(d) ==
  /\ ~crashed
  /\ isReady' = FALSE
  /\ isAuthenticated' = FALSE
  /\ lastQR' = NoQR
  /\ readyPeriod' = FALSE
  /\ sinceRestart' = (sinceRestart \/ d # "throw")
  /\ reqs' = Interrupt(reqs)
  /\ faulty' = (faulty \/ d # "ok")
  /\ IF d = "throw"
     THEN /\ last' = Obs("restart", 500, client, "", "none", <<d>>, <<>>)
          /\ UNCHANGED <<status, timers, crashed>>
     ELSE /\ Room
          /\ status' = IF d = "ok" THEN AfterDestroy(status, client) ELSE status
          /\ timers' = Append(timers, Timer("restart", 0))
          /\ crashed' = (d = "reject")
          /\ last' = Obs("restart", 200, client, "", "none", <<d>>, <<>>)
  /\ UNCHANGED <<client, wired, sessionData, conts, qrSeen, sinceReady>>

\* hasQR of GET / index.js:164
HasQR == lastQR # NoQR /\ ~isReady

\* GET / index.js:158-166
GetStatus ==
  /\ ~crashed
  /\ last' = Obs("status", 200, client, "", "none", <<>>,
                 <<isReady, isAuthenticated, HasQR>>)
  /\ UNCHANGED <<faulty, isReady, isAuthenticated, lastQR, client, status, wired,
                 sessionData, timers, conts, reqs, crashed, qrSeen, sinceReady,
                 readyPeriod, sinceRestart>>

\* the stored payload tested before readiness
QrCode_qrFirst == IF lastQR = NoQR THEN 404 ELSE IF isReady THEN 204 ELSE 200

\* the status GET /qr and GET /qr.png decide on before any encoding
\* index.js:170-171, 183-184
QrCode == IF isReady THEN 204 ELSE IF lastQR = NoQR THEN 404 ELSE 200

\* GET /qr index.js:182-186
GetQr ==
  /\ ~crashed
  /\ last' = Obs("qr.get", QrCode, client, "", "none", <<>>,
                 IF QrCode = 200 THEN <<lastQR>> ELSE <<>>)
  /\ UNCHANGED <<faulty, isReady, isAuthenticated, lastQR, client, status, wired,
                 sessionData, timers, conts, reqs, crashed, qrSeen, sinceReady,
                 readyPeriod, sinceRestart>>

\* GET /qr.png index.js:169-179: e is how QRCode.toBuffer(lastQR) ended; the
\* payload is read before the await
GetQrPng(e) ==
  /\ ~crashed
  /\ QrCode = 200 \/ e = "ok"
  /\ last' = IF QrCode = 200 /\ e # "ok"
             THEN Obs("qr.png", 500, client, "", "none", <<e>>, <<>>)
             ELSE Obs("qr.png", QrCode, client, "", "none", <<e>>,
                      IF QrCode = 200 THEN <<lastQR>> ELSE <<>>)
  /\ UNCHANGED <<faulty, isReady, isAuthenticated, lastQR, client, status, wired,
                 sessionData, timers, conts, reqs, crashed, qrSeen, sinceReady,
                 readyPeriod, sinceRestart>>

\* ------------------------------------------------------------- POST /send
\* the '@c.us' suffix of index.js:147
Suffix == <<"@", "c", ".", "u", "s">>

\* a normaliser that strips the blanks only
toWhatsAppId_blanksOnly(number) ==
  LET NotBlank(ch) == ~IsSpace(ch)
      kept == SelectSeq(number, NotBlank)
  IN IF ~Truthy(kept) THEN Null ELSE kept \o Suffix

\* toWhatsAppId() index.js:142-148
toWhatsAppId(number) ==
  LET digits == SelectSeq(number, IsDigit)
  IN IF ~Truthy(digits) THEN Null ELSE digits \o Suffix

\* a request suspended at an await: stage is the adapter call it waits for
Req(route, stage, to, name, q) ==
  [route |-> route, stage |-> stage, to |-> to, name |-> name, q |-> q,
   interrupted |-> FALSE]

\* a gate that lets every request through
requireReady_open == FALSE

\* requireReady() index.js:150-155: TRUE when it answered 503
requireReady == ~isReady

\* index.js:222: the fields /send reads from its body
Body(number, message, jid) == [number |-> number, message |-> message, jid |-> jid]

\* the observation of a /send step: Obs with the body the request came with
SendObs(number, message, jid, code, call, env, data) ==
  [op |-> "send", code |-> code, inst |-> client, reason |-> "", call |-> call,
   env |-> env, data |-> data, body |-> Body(number, message, jid)]

\* index.js:226
SendBadRequest(number, message, jid) ==
  ~Truthy(message) \/ (~Truthy(number) /\ ~Truthy(jid))

\* index.js:236
SendTarget(number, jid) == IF Truthy(jid) THEN jid ELSE toWhatsAppId(number)

\* POST /send index.js:216-250 up to `await client.sendMessage(...)`: s is how
\* the call itself ended (a synchronous throw is caught at once)
PostSend(number, message, jid, s) ==
  /\ ~crashed
  /\ IF requireReady
     THEN /\ s = "ok"
          /\ last' = SendObs(number, message, jid, 503, "none", <<>>, <<"client_not_ready">>)
          /\ reqs' = reqs
     ELSE IF SendBadRequest(number, message, jid)
     THEN /\ s = "ok"
          /\ last' = SendObs(number, message, jid, 400, "none", <<>>, <<"bad_request">>)
          /\ reqs' = reqs
     ELSE IF ~Truthy(SendTarget(number, jid))
     THEN /\ s = "ok"
          /\ last' = SendObs(number, message, jid, 400, "none", <<>>, <<"invalid_number">>)
          /\ reqs' = reqs
     ELSE IF s = "throw"
     THEN /\ last' = SendObs(number, message, jid, 500, "sendMessage", <<s>>, <<"send_failed">>)
          /\ reqs' = reqs
     ELSE /\ Room
          /\ last' = SendObs(number, message, jid, 0, "sendMessage", <<s>>, SendTarget(number, jid))
          /\ reqs' = Append(reqs, Req("send", "sendMessage", SendTarget(number, jid), Null, Null))
  /\ UNCHANGED <<faulty, isReady, isAuthenticated, lastQR, client, status, wired,
                 sessionData, timers, conts, crashed, qrSeen, sinceReady,
                 readyPeriod, sinceRestart>>

\* a handler that sends again when sendMessage rejects
SendSettle_retry(k, r) ==
  /\ ~crashed
  /\ k \in 1..Len(reqs)
  /\ reqs[k].route = "send"
  /\ reqs' = IF r = "ok" THEN RemoveAt(reqs, k) ELSE reqs
  /\ last' = IF r = "ok"
             THEN Obs("send.done", 200, client, "", "none", <<r, reqs[k].interrupted>>, reqs[k].to)
             ELSE Obs("send.done", 0, client, "", "sendMessage", <<r, reqs[k].interrupted>>, reqs[k].to)
  /\ UNCHANGED <<faulty, isReady, isAuthenticated, lastQR, client, status, wired,
                 sessionData, timers, conts, crashed, qrSeen, sinceReady,
                 readyPeriod, sinceRestart>>

\* index.js:243-249: the promise of sendMessage settles (r) and /send answers
SendSettle(k, r) ==
  /\ ~crashed
  /\ k \in 1..Len(reqs)
  /\ reqs[k].route = "send"
  /\ reqs' = RemoveAt(reqs, k)
  /\ last' = IF r = "ok"
             THEN Obs("send.done", 200, client, "", "none", <<r, reqs[k].interrupted>>, reqs[k].to)
             ELSE Obs("send.done", 500, client, "", "none", <<r, reqs[k].interrupted>>, <<"send_failed">>)
  /\ UNCHANGED <<faulty, isReady, isAuthenticated, lastQR, client, status, wired,
                 sessionData, timers, conts, crashed, qrSeen, sinceReady,
                 readyPeriod, sinceRestart>>

\* ----------------------------------------------------------- the contacts
\* a Contact of the adapter; id absent is user = serialized = Null
Contact(name, pushname, shortName, number, user, serialized, my, wa, ent, group) ==
  [name |-> name, pushname |-> pushname, shortName |-> shortName,
   number |-> number, user |-> user, serialized |-> serialized,
   isMyContact |-> my, isWAContact |-> wa, isEnterprise |-> ent, isGroup |-> group]

\* a || b on strings
Or(a, b) == IF Truthy(a) THEN a ELSE b

\* index.js:259
ContactsListed(c) == c.isMyContact \/ c.isEnterprise \/ c.isWAContact

\* index.js:273-277 for one mapped contact
ContactsMatch(c, query) ==
  \E v \in {c.name, c.pushname, c.shortName, Or(c.number, c.user)} :
    Truthy(v) /\ includes(toLowerCase(v), query)

\* GET /contacts index.js:258-279: the serialized ids of the results, in order
ContactsResults(contacts, query) ==
  LET Keep(c) == ContactsListed(c) /\ (Truthy(query) => ContactsMatch(c, query))
      kept == SelectSeq(contacts, Keep)
  IN [k \in 1..Len(kept) |-> kept[k].serialized]

\* GET /contacts index.js:253-257 up to `await client.getContacts()`
GetContacts(query, s) ==
  /\ ~crashed
  /\ IF requireReady
     THEN /\ s = "ok"
          /\ last' = Obs("contacts", 503, client, "", "none", <<>>, <<"client_not_ready">>)
          /\ reqs' = reqs
     ELSE IF s = "throw"
     THEN /\ last' = Obs("contacts", 500, client, "", "getContacts", <<s>>, <<"contacts_failed">>)
          /\ reqs' = reqs
     ELSE /\ Room
          /\ last' = Obs("contacts", 0, client, "", "getContacts", <<s>>, <<>>)
          /\ reqs' = Append(reqs, Req("contacts", "getContacts", Null, Null,
                                       toLowerCase(trim(query))))
  /\ UNCHANGED <<faulty, isReady, isAuthenticated, lastQR, client, status, wired,
                 sessionData, timers, conts, crashed, qrSeen, sinceReady,
                 readyPeriod, sinceRestart>>

\* index.js:257-282: getContacts settles (r, with the contacts when resolved)
ContactsSettle(k, r, contacts) ==
  /\ ~crashed
  /\ k \in 1..Len(reqs)
  /\ reqs[k].route = "contacts"
  /\ r = "ok" \/ contacts = <<>>
  /\ reqs' = RemoveAt(reqs, k)
  /\ last' = IF r = "ok"
             THEN Obs("contacts.done", 200, client, "", "none", <<r, reqs[k].interrupted>>,
                      ContactsResults(contacts, reqs[k].q))
             ELSE Obs("contacts.done", 500, client, "", "none", <<r, reqs[k].interrupted>>,
                      <<"contacts_failed">>)
  /\ UNCHANGED <<faulty, isReady, isAuthenticated, lastQR, client, status, wired,
                 sessionData, timers, conts, crashed, qrSeen, sinceReady,
                 readyPeriod, sinceRestart>>

\* ------------------------------------------------------ POST /send-by-name
\* a filter that forgets the groups
Eligible_groupsToo(c) == c.isMyContact \/ c.isWAContact

\* index.js:296
Eligible(c) == (c.isMyContact \/ c.isWAContact) /\ ~c.isGroup

\* the fields index.js:299 scores
ScoredFields(c) == <<c.name, c.pushname, c.shortName, c.number, c.user>>

\* a comparison that forgets to lowercase the field
Score_caseSensitive(c, q) ==
  Cardinality({k \in 1..Len(ScoredFields(c)) :
                 Truthy(ScoredFields(c)[k]) /\ includes(ScoredFields(c)[k], q)})

\* index.js:299-301: one point per non-empty field that contains q
Score(c, q) ==
  Cardinality({k \in 1..Len(ScoredFields(c)) :
                 /\ Truthy(ScoredFields(c)[k])
                 /\ includes(toLowerCase(ScoredFields(c)[k]), q)})

\* Array.prototype.sort((a, b) => b.score - a.score): stable, by descending score
RECURSIVE InsertByScore(_, _)
InsertByScore(x, sorted) ==
  IF sorted = <<>> THEN <<x>>
  ELSE IF Head(sorted).score >= x.score
       THEN <<Head(sorted)>> \o InsertByScore(x, Tail(sorted))
       ELSE <<x>> \o sorted
RECURSIVE SortByScore(_)
SortByScore(xs) ==
  IF xs = <<>> THEN <<>>
  ELSE InsertByScore(xs[Len(xs)], SortByScore(SubSeq(xs, 1, Len(xs) - 1)))

\* candidates left in the order getContacts gave them
Candidates_unsorted(contacts, q) ==
  LET eligible == SelectSeq(contacts, Eligible)
      scored == [k \in 1..Len(eligible) |->
                   [contact |-> eligible[k], score |-> Score(eligible[k], q)]]
      Positive(x) == x.score > 0
  IN SelectSeq(scored, Positive)

\* index.js:295-304
Candidates(contacts, q) ==
  LET eligible == SelectSeq(contacts, Eligible)
      scored == [k \in 1..Len(eligible) |->
                   [contact |-> eligible[k], score |-> Score(eligible[k], q)]]
      Positive(x) == x.score > 0
  IN SortByScore(SelectSeq(scored, Positive))

\* a tie broken by taking the first candidate
Top_first(cands) == <<cands[1]>>

\* index.js:311-312
Top(cands) ==
  LET IsTop(x) == x.score = cands[1].score
  IN SelectSeq(cands, IsTop)

\* index.js:317 top.slice(0, 10)
SLICE_MAX == 10
Slice(xs) == SubSeq(xs, 1, IF Len(xs) < SLICE_MAX THEN Len(xs) ELSE SLICE_MAX)

\* index.js:320, 329
DisplayName(c) == Or(c.name, Or(c.pushname, c.shortName))

\* index.js:306-327: what the handler decides once the contacts are there
Resolve(contacts, q) ==
  LET cands == Candidates(contacts, q)
  IN IF cands = <<>> THEN [kind |-> "NoMatch", code |-> 404, to |-> Null, listed |-> <<>>]
     ELSE IF Len(Top(cands)) > 1
     THEN [kind |-> "Ambiguous", code |-> 300, to |-> Null,
           listed |-> [k \in 1..Len(Slice(Top(cands))) |-> Slice(Top(cands))[k].contact.serialized]]
     ELSE IF ~Truthy(cands[1].contact.serialized)
     THEN [kind |-> "InvalidContact", code |-> 500, to |-> Null, listed |-> <<>>]
     ELSE [kind |-> "ResolvedOne", code |-> 0, to |-> cands[1].contact.serialized,
           listed |-> <<>>]

\* the observation of a /send-by-name step: Obs with the body of the request
SbnObs(name, message, code, call, env, data) ==
  [op |-> "sbn", code |-> code, inst |-> client, reason |-> "", call |-> call,
   env |-> env, data |-> data, body |-> [name |-> name, message |-> message]]

\* index.js:289
SbnBadRequest(name, message) == ~Truthy(name) \/ ~Truthy(message)

\* POST /send-by-name index.js:286-294 up to `await client.getContacts()`; a
\* synchronous throw of getContacts() is caught by the try at index.js:293
PostSendByName(name, message, s) ==
  /\ ~crashed
  /\ IF requireReady
     THEN /\ s = "ok"
          /\ last' = SbnObs(name, message, 503, "none", <<>>, <<"client_not_ready">>)
          /\ reqs' = reqs
     ELSE IF SbnBadRequest(name, message)
     THEN /\ s = "ok"
          /\ last' = SbnObs(name, message, 400, "none", <<>>, <<"bad_request">>)
          /\ reqs' = reqs
     ELSE IF s = "throw"
     THEN /\ last' = SbnObs(name, message, 500, "getContacts", <<s>>, <<"send_by_name_failed">>)
          /\ reqs' = reqs
     ELSE /\ Room
          /\ last' = SbnObs(name, message, 0, "getContacts", <<s>>, <<>>)
          /\ reqs' = Append(reqs, Req("sbn", "getContacts", Null, Null,
                                       toLowerCase(trim(name))))
  /\ UNCHANGED <<faulty, isReady, isAuthenticated, lastQR, client, status, wired,
                 sessionData, timers, conts, crashed, qrSeen, sinceReady,
                 readyPeriod, sinceRestart>>

\* index.js:294-328: getContacts settles (r, contacts); the handler resolves the
\* name and, for a single best match, calls client.sendMessage (s: how the call
\* itself ended). Readiness is not looked at again
SbnContactsSettle(k, r, contacts, s) ==
  /\ ~crashed
  /\ k \in 1..Len(reqs)
  /\ reqs[k].route = "sbn"
  /\ reqs[k].stage = "getContacts"
  /\ r = "ok" \/ contacts = <<>>
  /\ LET res == Resolve(contacts, reqs[k].q)
         int == reqs[k].interrupted
     IN IF r # "ok"
        THEN /\ s = "ok"
             /\ reqs' = RemoveAt(reqs, k)
             /\ last' = Obs("sbn.contacts", 500, client, "", "none", <<r, int>>,
                            <<"send_by_name_failed">>)
        ELSE IF res.kind = "NoMatch"
        THEN /\ s = "ok"
             /\ reqs' = RemoveAt(reqs, k)
             /\ last' = Obs("sbn.contacts", 404, client, "", "none", <<r, int>>, <<"no_match">>)
        ELSE IF res.kind = "Ambiguous"
        THEN /\ s = "ok"
             /\ reqs' = RemoveAt(reqs, k)
             /\ last' = Obs("sbn.contacts", 300, client, "", "none", <<r, int>>, res.listed)
        ELSE IF res.kind = "InvalidContact"
        THEN /\ s = "ok"
             /\ reqs' = RemoveAt(reqs, k)
             /\ last' = Obs("sbn.contacts", 500, client, "", "none", <<r, int>>,
                            <<"invalid_contact">>)
        ELSE IF s = "throw"
        THEN /\ reqs' = RemoveAt(reqs, k)
             /\ last' = Obs("sbn.contacts", 500, client, "", "sendMessage", <<s, int>>,
                            <<"send_by_name_failed">>)
        ELSE /\ reqs' = [reqs EXCEPT ![k] =
                           [@ EXCEPT !.stage = "sendMessage", !.to = res.to,
                                     !.name = DisplayName(Candidates(contacts, reqs[k].q)[1].contact)]]
             /\ last' = Obs("sbn.contacts", 0, client, "", "sendMessage", <<s, int>>, res.to)
  /\ UNCHANGED <<faulty, isReady, isAuthenticated, lastQR, client, status, wired,
                 sessionData, timers, conts, crashed, qrSeen, sinceReady,
                 readyPeriod, sinceRestart>>

\* index.js:328-332: sendMessage settles (r) and /send-by-name answers
SbnSendSettle(k, r) ==
  /\ ~crashed
  /\ k \in 1..Len(reqs)
  /\ reqs[k].route = "sbn"
  /\ reqs[k].stage = "sendMessage"
  /\ reqs' = RemoveAt(reqs, k)
  /\ last' = IF r = "ok"
             THEN Obs("sbn.done", 200, client, "", "none", <<r, reqs[k].interrupted>>,
                      <<reqs[k].to, reqs[k].name>>)
             ELSE Obs("sbn.done", 500, client, "", "none", <<r, reqs[k].interrupted>>,
                      <<"send_by_name_failed">>)
  /\ UNCHANGED <<faulty, isReady, isAuthenticated, lastQR, client, status, wired,
                 sessionData, timers, conts, crashed, qrSeen, sinceReady,
                 readyPeriod, sinceRestart>>

\* ------------------------------------------------------- request inputs
\* bodies of POST /send
SendBodies ==
  { Body(<<"+", "1">>, Null, Null),               \* no message
    Body(Null, <<"h", "i">>, Null),               \* neither number nor jid
    Body(<<"+">>, <<"h", "i">>, Null),            \* a number without a digit
    Body(<<"+", "1">>, <<"h", "i">>, Null),       \* a number
    Body(<<"+">>, <<"h", "i">>, <<"1">> \o Suffix),  \* a jid
    Body(Null, <<"h", "i">>, <<"x">>) }           \* a jid that is no address
\* names of POST /send-by-name and queries of GET /contacts
Names == {Null, <<" ">>, <<"J", "o">>}
SbnBodies ==
  { [name |-> Null, message |-> <<"h", "i">>],
    [name |-> <<"J", "o">>, message |-> Null],
    [name |-> <<"J", "o">>, message |-> <<"h", "i">>],
    [name |-> <<" ">>, message |-> <<"h", "i">>] }
\* what getContacts can resolve with
Jo == Contact(<<"J", "o">>, Null, Null, <<"1">>, <<"1">>, <<"1">> \o Suffix,
              TRUE, TRUE, FALSE, FALSE)
Joe == Contact(Null, <<"j", "o", "e">>, Null, <<"2">>, <<"2">>, <<"2">> \o Suffix,
               FALSE, TRUE, FALSE, FALSE)
Team == Contact(<<"J", "o", "b", "s">>, Null, Null, Null, <<"3">>, <<"3">> \o Suffix,
                TRUE, FALSE, FALSE, TRUE)
NoId == Contact(Null, <<"A", "l">>, Null, Null, Null, Null, FALSE, TRUE, FALSE, FALSE)
ContactLists == {<<>>, <<Jo>>, <<Team, Jo>>, <<Jo, Joe>>, <<NoId>>}

SyncOutcomes == {"ok", "throw"}
SettleOutcomes == {"ok", "reject"}

\* the adapter's events and the program's pending tasks
Events ==
  \/ \E c \in Inst, qr \in QRPayloads : OnQr(c, qr)
  \/ \E c \in Inst : OnAuthenticated(c)
  \/ \E c \in Inst : OnAuthFailure(c)

Recovery ==
  \/ \E c \in Inst : OnReady(c)
  \/ \E c \in Inst, reason \in Reasons : OnDisconnected(c, reason)
  \/ \E c \in Inst : LogoutResume(c)
  \/ \E i \in 1..Len(timers), b \in SyncOutcomes, o \in CallOutcomes : TimerRebuild(i, b, o)
  \/ \E i \in 1..Len(timers), o \in CallOutcomes : TimerReinit(i, o)
  \/ \E i \in 1..Len(timers), o \in CallOutcomes : TimerRestart(i, o)
  \/ \E d \in CallOutcomes : PostRestart(d)

QrReads ==
  \/ GetQr
  \/ \E e \in SyncOutcomes : GetQrPng(e)

Sends ==
  \/ GetStatus
  \/ \E body \in SendBodies, s \in SyncOutcomes :
       PostSend(body.number, body.message, body.jid, s)
  \/ \E k \in 1..Len(reqs), r \in SettleOutcomes : SendSettle(k, r)
  \/ \E query \in Names, s \in SyncOutcomes : GetContacts(query, s)
  \/ \E k \in 1..Len(reqs), r \in SettleOutcomes, contacts \in ContactLists :
       ContactsSettle(k, r, contacts)
  \/ \E body \in SbnBodies, s \in SyncOutcomes :
       PostSendByName(body.name, body.message, s)
  \/ \E k \in 1..Len(reqs), r \in SettleOutcomes, contacts \in ContactLists, s \in SyncOutcomes :
       SbnContactsSettle(k, r, contacts, s)
  \/ \E k \in 1..Len(reqs), r \in SettleOutcomes : SbnSendSettle(k, r)

\* the session lifecycle: every adapter event, the recovery tasks, /restart and
\* the QR endpoints
Next == Events \/ Recovery \/ QrReads

Spec == Init /\ [][Next]_vars

\* the sending endpoints against the steps that change what they read: isReady
\* is set by `ready` and cleared by `disconnected` and by /restart. What a
\* disconnect schedules afterwards, and how a failing destroy() or initialize()
\* ends, is the subject of Spec
Readiness ==
  \/ \E c \in Inst : OnReady(c)
  \/ \E c \in Inst, reason \in {"NAVIGATION", "CONFLICT"} : OnDisconnected(c, reason)
  \/ PostRestart("ok")
  \/ \E i \in 1..Len(timers) : TimerRestart(i, "ok")

NextHttp == Readiness \/ Sends

\* none of these steps reads or writes the session directory: it is there;
\* initialize() at load returned
InitHttp == Init /\ sessionData /\ status[1] = "live"

SpecHttp == InitHttp /\ [][NextHttp]_vars

\* ------------------------------------------- the resolver and the normaliser
\* index.js:292
Query(name) == toLowerCase(trim(name))

\* index.js:292-327 applied to a name and to what getContacts resolved with:
\* the step records its inputs, the candidates of index.js:295-304 and what
\* the handler decides
ResolveName(name, contacts) ==
  /\ ~crashed
  /\ last' = Obs("resolve", Resolve(contacts, Query(name)).code, client, "", "none",
                 <<name, contacts, Candidates(contacts, Query(name))>>,
                 Resolve(contacts, Query(name)))
  /\ UNCHANGED <<faulty, isReady, isAuthenticated, lastQR, client, status, wired,
                 sessionData, timers, conts, reqs, crashed, qrSeen, sinceReady,
                 readyPeriod, sinceRestart>>

\* index.js:142-148 applied to a number: the step records input and result
Normalise(number) ==
  /\ ~crashed
  /\ last' = Obs("normalise", 0, client, "", "none", <<number>>, toWhatsAppId(number))
  /\ UNCHANGED <<faulty, isReady, isAuthenticated, lastQR, client, status, wired,
                 sessionData, timers, conts, reqs, crashed, qrSeen, sinceReady,
                 readyPeriod, sinceRestart>>

\* more of what getContacts can resolve with
\* neither isMyContact nor isWAContact
Stranger == Contact(<<"J", "o">>, <<"j", "o">>, Null, <<"4">>, <<"4">>, <<"4">> \o Suffix,
                    FALSE, FALSE, TRUE, FALSE)
\* two fields contain "jo"
Jojo == Contact(<<"J", "O">>, <<"j", "o", "j", "o">>, Null, <<"1", "2">>, <<"5">>,
                <<"5">> \o Suffix, TRUE, FALSE, FALSE, FALSE)
Pool == {Jo, Joe, Team, NoId, Stranger, Jojo}

DigitChars == <<"0", "1", "2", "3", "4", "5", "6", "7", "8", "9">>
DigitsOf(k) == IF k < 10 THEN <<DigitChars[k + 1]>>
               ELSE <<DigitChars[(k \div 10) + 1], DigitChars[(k % 10) + 1]>>
\* one more equally good match than an Ambiguous answer lists
Crowd == [k \in 1..(SLICE_MAX + 1) |->
            Contact(<<"j", "o">>, Null, Null, Null, DigitsOf(k), DigitsOf(k) \o Suffix,
                    TRUE, TRUE, FALSE, FALSE)]
ResolveLists == UNION {[1..n -> Pool] : n \in 0..MaxContacts} \cup {Crowd}
\* names that pass index.js:289
ResolveNames == {<<"J", "o">>, <<" ", "j", "O", " ">>, <<"1">>, <<"a", "l">>, <<" ">>}

NumberChars == {"1", "2", "+", " "}
Numbers == UNION {[1..n -> NumberChars] : n \in 0..MaxLen}

\* a ready session (Init after a `ready` event) about to serve one request,
\* whose input is drawn here: the name of a /send-by-name together with what
\* getContacts resolves with, or the number of a /send
InitResolve ==
  /\ isReady = TRUE
  /\ isAuthenticated \in BOOLEAN
  /\ lastQR = NoQR
  /\ client = 1
  /\ status = [i \in Inst |-> IF i = 1 THEN "live" ELSE "none"]
  /\ faulty = FALSE
  /\ wired = [i \in Inst |-> i = 1]
  /\ sessionData = TRUE
  /\ timers = <<>>
  /\ conts = [i \in Inst |-> 0]
  /\ reqs = <<>>
  /\ crashed = FALSE
  /\ \/ \E name \in ResolveNames, contacts \in ResolveLists :
          last = Obs("name", 0, 1, "", "none", <<name, contacts>>, <<>>)
     \/ \E number \in Numbers :
          last = Obs("number", 0, 1, "", "none", <<number>>, <<>>)
  /\ qrSeen = NoQR
  /\ sinceReady = TRUE
  /\ readyPeriod = TRUE
  /\ sinceRestart = FALSE

\* the pure part of /send-by-name and of /send applied to the drawn input, and
\* /send served with the drawn number
NextResolve ==
  \/ last.op = "name" /\ ResolveName(last.env[1], last.env[2])
  \/ last.op = "number" /\ Normalise(last.env[1])
  \/ \E s \in SyncOutcomes :
       last.op = "number" /\ PostSend(last.env[1], <<"h", "i">>, Null, s)
  \/ \E k \in 1..Len(reqs), r \in SettleOutcomes : SendSettle(k, r)

SpecResolve == InitResolve /\ [][NextResolve]_vars

\* ================================================================== claims
\* A formula over `faulty` is stated for the runs in which no lifecycle call
\* (constructor, initialize, destroy, rmSync) has failed so far: a violation
\* found there does not rest on a failing adapter.

\* C1: at every instant at most one recovery timer (a pending setTimeout set
\* by a `disconnected` handler, which will re-initialize or rebuild the
\* adapter) is scheduled, whatever disconnect events arrive meanwhile.
C1_AtMostOneRecoveryTimer == ~faulty => Cardinality(RecoveryTimers) <= 1

\* C2: at most one adapter instance is live (initialized and not destroyed) at
\* any time, over every interleaving of disconnects, timers, rebuilds and
\* /restart.
C2_AtMostOneLive == ~faulty => Cardinality(LiveSet) <= 1

\* the steps that run for one adapter instance: its event handlers, the
\* resumption of its LOGOUT handler, the timer that re-initializes it
InstanceOps == {"qr", "authenticated", "auth_failure", "ready", "disconnected",
                "logoutResume", "timerReinit"}

\* C3: once initializeClient has replaced the adapter, no step that belongs to
\* the replaced instance changes isReady, isAuthenticated or lastQR or
\* schedules a timer.
C3_ReplacedIsSilent ==
  [][(~faulty' /\ last'.op \in InstanceOps /\ last'.inst # client)
       => /\ isReady' = isReady
          /\ isAuthenticated' = isAuthenticated
          /\ lastQR' = lastQR
          /\ Len(timers') <= Len(timers)]_vars

\* what the LOGOUT handling does besides the purge: the flags are cleared in
\* the handler, which constructs no adapter; when destroy() has settled (or at
\* once when it threw) lastQR is cleared and exactly one timer is set, whose
\* callback constructs a fresh instance and makes it the handle, leaving the
\* old instances as they are
LogoutSteps ==
  /\ (last'.op = "disconnected" /\ last'.reason = "LOGOUT")
       => /\ ~isReady' /\ ~isAuthenticated'
          /\ client' = client /\ status'[last'.inst] \in {status[last'.inst], "destroyed"}
          /\ \A j \in Inst \ {last'.inst} : status'[j] = status[j]
          /\ IF last'.env[2] = "throw"
             THEN /\ lastQR' = NoQR
                  /\ timers' = Append(timers, Timer("rebuild", 0))
                  /\ conts' = conts
             ELSE /\ timers' = timers
                  /\ conts' = [conts EXCEPT ![last'.inst] = @ + 1]
  /\ last'.op = "logoutResume"
       => /\ lastQR' = NoQR
          /\ timers' = Append(timers, Timer("rebuild", 0))
          /\ conts' = [conts EXCEPT ![last'.inst] = @ - 1]
          /\ client' = client /\ status' = status
  /\ (last'.op = "timerRebuild" /\ last'.env[1] = "ok")
       => /\ status[client'] = "none" /\ status'[client'] # "none"
          /\ \A j \in Inst \ {client'} : status'[j] = status[j]
  \* a rebuild timer is set by nothing else
  /\ last'.op \notin {"disconnected", "logoutResume"}
       => \A k \in 1..Len(timers') :
            timers'[k].kind = "rebuild" => \E j \in 1..Len(timers) : timers[j] = timers'[k]
  \* the credentials are purged for LOGOUT and for no other reason
  /\ (sessionData /\ ~sessionData')
       => last'.op = "disconnected" /\ last'.reason = "LOGOUT"

\* C4: on `disconnected` with reason LOGOUT the persisted session data is
\* purged in the handler, before any adapter is created; the flags and lastQR
\* are cleared and exactly one recreation through buildClient is scheduled;
\* the purge happens for no other reason.
C4_LogoutPurges ==
  [][/\ LogoutSteps
     /\ (last'.op = "disconnected" /\ last'.reason = "LOGOUT") => ~sessionData']_vars

\* what the code does of C4: the same, the purge being the removal that
\* clearSessionData attempts: the data is gone unless rmSync threw, which is
\* caught and logged, and the handler goes on to the rebuild either way.
C4_LogoutPolicy ==
  [][/\ LogoutSteps
     /\ (last'.op = "disconnected" /\ last'.reason = "LOGOUT")
          => (~sessionData' <=> (~sessionData \/ last'.env[1] = "ok"))]_vars

\* C4's case: a LOGOUT whose purge removed the data, resumed after destroy()
\* and rebuilt
C4_Witness ==
  /\ last.op = "timerRebuild" /\ last.env = <<"ok", "ok">>
  /\ ~sessionData /\ lastQR = NoQR /\ client = 2 /\ status[1] = "destroyed" /\ status[2] = "live"
  /\ ~faulty

\* C5: on `disconnected` with reason NAVIGATION or CONFLICT the flags are
\* cleared and nothing else happens: no timer, no suspended handler, no
\* initialize, destroy, purge or rebuild.
C5_NoAutoRecovery ==
  [][(last'.op = "disconnected" /\ last'.reason \in {"NAVIGATION", "CONFLICT"})
       => /\ ~isReady' /\ ~isAuthenticated'
          /\ UNCHANGED <<timers, conts, status, wired, client, sessionData, lastQR,
                         crashed>>]_vars

\* a CONFLICT disconnect of a ready, authenticated session with stored credentials
C5_Witness ==
  /\ last.op = "disconnected" /\ last.reason = "CONFLICT"
  /\ timers = <<>> /\ Live(client) /\ sessionData /\ ~isReady /\ sinceReady

\* C6: on `disconnected` with any other reason a single timer is set that
\* calls initialize() on the instance that emitted the event; the recovery
\* constructs no adapter and leaves the handle as it is.
C6_ReinitSameInstance ==
  [][/\ (last'.op = "disconnected" /\ last'.reason \notin {"LOGOUT", "NAVIGATION", "CONFLICT"})
          => /\ timers' = Append(timers, Timer("reinit", last'.inst))
             /\ UNCHANGED <<client, status, conts>>
     /\ last'.op = "timerReinit"
          => /\ client' = client
             /\ \A j \in Inst : status[j] = "none" => status'[j] = "none"]_vars

\* C7: every sendMessage and getContacts call made for /send, /contacts or
\* /send-by-name reaches the adapter while isReady is true, also when a
\* disconnect or /restart was processed since the request's readiness check.
C7_CallsOnlyWhenReady == last.call # "none" => isReady

\* what C8 says besides the status of a forwarded call: /send answers 503
\* client_not_ready outside the ready period whatever its body; inside it a
\* body that passes validation is forwarded to the adapter; GET / reports
\* ready = TRUE exactly in the ready period
SendGate ==
  /\ (last.op = "send" /\ ~readyPeriod)
       => last.code = 503 /\ last.data = <<"client_not_ready">> /\ last.call = "none"
  /\ (last.op = "send" /\ readyPeriod)
       => last.code # 503 /\ (last.code = 400 \/ last.call = "sendMessage")
  /\ last.op = "status" => last.data[1] = readyPeriod

\* C8 as claimed: a valid /send forwarded in the ready period, with no
\* disconnect or restart before it answers, responds 200.
C8_ReadySendSucceeds ==
  /\ SendGate
  /\ (last.op = "send" /\ last.call = "sendMessage") => last.code \in {0, 200}
  /\ (last.op = "send.done" /\ ~last.env[2]) => last.code = 200

\* C8 as amended: it responds 200 when the adapter's sendMessage resolves and
\* 500 send_failed when the call throws or its promise rejects.
C8_ReadySendForwarded ==
  /\ SendGate
  /\ (last.op = "send" /\ last.call = "sendMessage")
       => \/ last.code = 0 /\ last.env = <<"ok">>
          \/ last.code = 500 /\ last.env = <<"throw">> /\ last.data = <<"send_failed">>
  /\ last.op = "send.done"
       => \/ last.code = 200 /\ last.env[1] = "ok"
          \/ last.code = 500 /\ last.env[1] = "reject" /\ last.data = <<"send_failed">>

\* a /send forwarded in a ready period has answered 200 in the same period
C8_Witness ==
  /\ last.op = "send.done" /\ last.code = 200 /\ ~last.env[2] /\ readyPeriod
  /\ last.data = <<"1">> \o Suffix

\* the steps in which GET /qr or GET /qr.png answers
QrRead == last.op \in {"qr.get", "qr.png"}

\* C9 as claimed: GET /qr and GET /qr.png answer 204 whenever the session is
\* ready, otherwise 404 when no QR is stored, otherwise 200 with the payload
\* of the most recent `qr` event; 404 before any `qr` event of a session that
\* is not ready.
C9_QrAnswer ==
  QrRead =>
    /\ isReady => last.code = 204
    /\ (~isReady /\ lastQR = NoQR) => last.code = 404
    /\ (~isReady /\ lastQR # NoQR) => last.code = 200 /\ last.data = <<qrSeen>>
    /\ (~isReady /\ qrSeen = NoQR) => last.code = 404

\* C9 as amended: the same, except that GET /qr.png answers 500 when the PNG
\* encoding of the stored payload throws.
C9_QrAnswerOrEncodeFailure ==
  QrRead =>
    /\ isReady => last.code = 204
    /\ (~isReady /\ lastQR = NoQR) => last.code = 404
    /\ (~isReady /\ lastQR # NoQR)
         => \/ last.code = 200 /\ last.data = <<qrSeen>>
            \/ last.op = "qr.png" /\ last.env = <<"throw">> /\ last.code = 500
    /\ (~isReady /\ qrSeen = NoQR) => last.code = 404
    /\ (last.op = "qr.get" \/ last.env = <<"ok">>) => last.code # 500

\* GET /qr serves the second of two payloads after a disconnect ended readiness
C9_Witness ==
  /\ last.op = "qr.get" /\ last.code = 200 /\ last.data = <<"qrB">>
  /\ ~isReady /\ sinceReady

\* C10: in every state after a `ready` event and before the next `qr` event
\* lastQR is absent, so hasQR is false and the QR endpoints serve no payload
\* stored before that `ready`.
C10_ReadyClearsLastQR ==
  sinceReady => /\ lastQR = NoQR
                /\ ~HasQR
                /\ QrRead => last.code # 200

\* the restart timers pending in a timer queue
RestartTimers(ts) == {k \in 1..Len(ts) : ts[k].kind = "restart"}

\* C11: POST /restart, in whatever state it is served (a recovery timer may be
\* pending), answers 200, leaves isReady and isAuthenticated false and lastQR
\* absent, destroys the current adapter and schedules its re-creation; served
\* again before the scheduled work has run it leaves the same flags and adds
\* no second re-creation. Stated for the runs in which no lifecycle call failed.
C11_RestartIdempotent ==
  [][(last'.op = "restart" /\ ~faulty')
       => /\ last'.code = 200
          /\ ~isReady' /\ ~isAuthenticated' /\ lastQR' = NoQR
          /\ status'[client] = "destroyed" /\ client' = client
          /\ Cardinality(RestartTimers(timers')) = 1]_vars

\* C12: when the first `qr` event after a /restart is handled (no `ready` or
\* `authenticated` event in between), it comes from the current adapter and
\* the session awaits the QR scan: isReady and isAuthenticated are false,
\* lastQR is the payload of that event and hasQR is true.
C12_RestartRoundTrip ==
  (last.op = "qr" /\ sinceRestart)
    => /\ ~isReady /\ ~isAuthenticated
       /\ lastQR = qrSeen /\ lastQR \in QRPayloads /\ HasQR
       /\ last.inst = client /\ Live(client)

\* a restart whose timer has re-initialized the adapter, which then emitted a
\* fresh QR; no lifecycle call failed
C12_Witness ==
  /\ last.op = "qr" /\ sinceRestart /\ lastQR = "qrB" /\ HasQR
  /\ timers = <<>> /\ ~faulty /\ sessionData

\* the inputs and the outcome of a resolution step, and the eligible contacts
\* that score highest (above 0) for its query
ResolvedName == last.env[1]
ResolvedContacts == last.env[2]
EligibleIdx == {k \in DOMAIN ResolvedContacts : Eligible(ResolvedContacts[k])}
ScoreAt(k) == Score(ResolvedContacts[k], Query(ResolvedName))
Best == {k \in EligibleIdx :
           ScoreAt(k) > 0 /\ \A l \in EligibleIdx : ScoreAt(l) <= ScoreAt(k)}

\* what C13 says of NoMatch and Ambiguous
NoMatchOrAmbiguous ==
  /\ last.data.kind = "NoMatch" <=> (\A k \in EligibleIdx : ScoreAt(k) = 0)
  /\ last.data.kind = "NoMatch" => last.code = 404 /\ last.data.to = Null
  /\ last.data.kind = "Ambiguous" <=> Cardinality(Best) >= 2
  /\ last.data.kind = "Ambiguous"
       => /\ last.code = 300 /\ last.data.to = Null
          /\ Len(last.data.listed) <= SLICE_MAX
          /\ \A i \in DOMAIN last.data.listed :
               \E k \in Best : ResolvedContacts[k].serialized = last.data.listed[i]

\* C13 as claimed: NoMatch (404) iff no eligible contact scores above 0;
\* Ambiguous (300) iff two or more eligible contacts share the maximum score,
\* and then nothing is sent and at most 10 candidates, all top-scoring, are
\* listed; otherwise ResolvedOne, the target being the address of the single
\* contact with the strictly highest score.
C13_ResolutionOutcome ==
  last.op = "resolve" =>
    /\ NoMatchOrAmbiguous
    /\ Cardinality(Best) = 1
         => /\ last.data.kind = "ResolvedOne"
            /\ \E k \in Best : last.data.to = ResolvedContacts[k].serialized

\* C13 as amended: the same, except that a single best contact without an
\* address gives 500 invalid_contact and no target.
C13_ResolutionOutcomeOrInvalid ==
  last.op = "resolve" =>
    /\ NoMatchOrAmbiguous
    /\ Cardinality(Best) = 1
         => \E k \in Best :
              IF Truthy(ResolvedContacts[k].serialized)
              THEN /\ last.data.kind = "ResolvedOne" /\ last.code = 0
                   /\ last.data.to = ResolvedContacts[k].serialized
              ELSE /\ last.data.kind = "InvalidContact" /\ last.code = 500
                   /\ last.data.to = Null

\* eleven equally good matches: Ambiguous, ten of them listed
C13_Witness ==
  /\ last.op = "resolve" /\ last.data.kind = "Ambiguous"
  /\ Cardinality(Best) = SLICE_MAX + 1 /\ Len(last.data.listed) = SLICE_MAX

\* the candidates a resolution step computed
ResolvedCandidates == last.env[3]
\* 1 when the field is present and, lowercased, contains the trimmed,
\* lowercased name
Hit(field) ==
  IF Truthy(field) /\ includes(toLowerCase(field), toLowerCase(trim(ResolvedName)))
  THEN 1 ELSE 0
Hits(c) == Hit(c.name) + Hit(c.pushname) + Hit(c.shortName) + Hit(c.number) + Hit(c.user)

\* C14: the score of a contact is the number of its fields among name,
\* pushname, shortName, number and id.user that contain the trimmed,
\* lowercased query after lowercasing the field; a field counts at most once,
\* an absent field counts 0, hits in several fields add up.
C14_ScoreCountsFields ==
  last.op = "resolve" =>
    /\ \A i \in DOMAIN ResolvedCandidates :
         ResolvedCandidates[i].score = Hits(ResolvedCandidates[i].contact)
    /\ \A k \in EligibleIdx :
         Hits(ResolvedContacts[k]) > 0
           => \E i \in DOMAIN ResolvedCandidates :
                /\ ResolvedCandidates[i].contact = ResolvedContacts[k]
                /\ ResolvedCandidates[i].score = Hits(ResolvedContacts[k])

\* a name with spaces and capitals against a contact two of whose fields
\* contain it after lowercasing: score 2
C14_Witness ==
  /\ last.op = "resolve" /\ ResolvedName = <<" ", "j", "O", " ">>
  /\ \E i \in DOMAIN ResolvedCandidates :
       ResolvedCandidates[i].contact = Jojo /\ ResolvedCandidates[i].score = 2
  /\ \E i \in DOMAIN ResolvedCandidates : ResolvedCandidates[i].score = 1

\* a group, or a contact that is neither isMyContact nor isWAContact
Excluded(c) == c.isGroup \/ (~c.isMyContact /\ ~c.isWAContact)

\* C15: a group, and a contact that is neither isMyContact nor isWAContact, is
\* never scored, never listed in an Ambiguous answer and never chosen as the
\* target, whatever its fields contain.
C15_OnlyEligibleCandidates ==
  last.op = "resolve" =>
    /\ \A i \in DOMAIN ResolvedCandidates : ~Excluded(ResolvedCandidates[i].contact)
    /\ \A k \in DOMAIN ResolvedContacts :
         Excluded(ResolvedContacts[k])
           => /\ last.data.to # ResolvedContacts[k].serialized
              /\ \A i \in DOMAIN last.data.listed :
                   last.data.listed[i] # ResolvedContacts[k].serialized

\* a group whose name contains the query next to an eligible match: the
\* eligible one is the target
C15_Witness ==
  /\ last.op = "resolve" /\ last.data.kind = "ResolvedOne"
  /\ \E k \in DOMAIN ResolvedContacts :
       /\ ResolvedContacts[k].isGroup /\ Hits(ResolvedContacts[k]) > 0

\* the same contacts in another order
Reverse(xs) == [k \in 1..Len(xs) |-> xs[Len(xs) + 1 - k]]
Rotate(xs) == IF xs = <<>> THEN xs ELSE Tail(xs) \o <<Head(xs)>>
\* the scored contacts as a set
Scored(cands) == {cands[i] : i \in DOMAIN cands}

\* C16: for the same query and the same contact set every resolution yields
\* the same outcome kind, the same address when ResolvedOne and the same score
\* for every contact, in whatever order the contacts come; the resolution
\* changes no session state.
C16_ResolutionDeterministic ==
  [][last'.op = "resolve"
       => /\ UNCHANGED <<isReady, isAuthenticated, lastQR, client, status, wired,
                         sessionData, timers, conts, reqs, crashed>>
          /\ \A other \in {last'.env[2], Reverse(last'.env[2]), Rotate(last'.env[2])} :
               /\ Resolve(other, Query(last'.env[1])).kind = last'.data.kind
               /\ Resolve(other, Query(last'.env[1])).to = last'.data.to
               /\ Scored(Candidates(other, Query(last'.env[1]))) = Scored(last'.env[3])]_vars

\* two different candidates with different scores, resolved to one of them
C16_Witness ==
  /\ last.op = "resolve" /\ last.data.kind = "ResolvedOne"
  /\ Len(ResolvedCandidates) = 2
  /\ ResolvedCandidates[1].score > ResolvedCandidates[2].score
  /\ ResolvedContacts[1] = ResolvedCandidates[2].contact

\* the digits of a string, in their order
RECURSIVE DigitsIn(_)
DigitsIn(str) ==
  IF str = <<>> THEN <<>>
  ELSE IF Head(str) \in {"0", "1", "2", "3", "4", "5", "6", "7", "8", "9"}
       THEN <<Head(str)>> \o DigitsIn(Tail(str))
       ELSE DigitsIn(Tail(str))

\* C17: toWhatsAppId removes every non-digit character and gives the digits,
\* in their original order, followed by @c.us; an input without any digit
\* gives no address, and a /send with such a number (the number being what
\* /send hands to toWhatsAppId: present, no jid) answers 400 invalid_number
\* and calls nothing on the adapter.
C17_NumberNormalisation ==
  [][/\ last'.op = "normalise"
          => last'.data = IF DigitsIn(last'.env[1]) = <<>> THEN Null
                          ELSE DigitsIn(last'.env[1]) \o <<"@", "c", ".", "u", "s">>
     /\ (last.op = "number" /\ last.env[1] # <<>> /\ last'.op = "send")
          => IF DigitsIn(last.env[1]) = <<>>
             THEN /\ last'.code = 400 /\ last'.data = <<"invalid_number">>
                  /\ last'.call = "none" /\ reqs' = reqs
             ELSE /\ last'.call = "sendMessage"
                  /\ last'.code = 0
                       => last'.data = DigitsIn(last.env[1]) \o <<"@", "c", ".", "u", "s">>]_vars

\* a /send whose number has characters but no digit was answered 400
C17_Witness ==
  /\ last.op = "send" /\ last.code = 400 /\ last.data = <<"invalid_number">>
  /\ last.call = "none" /\ reqs = <<>>

\* an address has a user part and a server part around an "@"
WellFormedAddress(a) == \E k \in 2..(Len(a) - 1) : a[k] = "@"

\* what C18 calls a validation failure of a /send body: no message, neither
\* number nor jid, a jid that is no address, or (without a jid) a number
\* without a digit
InvalidSend(b) ==
  \/ ~Truthy(b.message)
  \/ ~Truthy(b.number) /\ ~Truthy(b.jid)
  \/ Truthy(b.jid) /\ ~WellFormedAddress(b.jid)
  \/ ~Truthy(b.jid) /\ Truthy(b.number) /\ DigitsIn(b.number) = <<>>

\* C18: while ready, a /send without message, without both number and jid or
\* with a malformed number or address, and a /send-by-name without name or
\* message, is answered 400 and causes no sendMessage or getContacts call.
C18_ValidationLocal ==
  /\ (last.op = "send" /\ isReady /\ InvalidSend(last.body))
       => last.code = 400 /\ last.call = "none"
  /\ (last.op = "sbn" /\ isReady /\ (~Truthy(last.body.name) \/ ~Truthy(last.body.message)))
       => last.code = 400 /\ last.call = "none"

\* the failure codes of the two sending routes (index.js:248, 332)
FailureCodes == {<<"send_failed">>, <<"send_by_name_failed">>}

\* requests of the sending routes whose sendMessage call was issued
Sent(rs) == {k \in 1..Len(rs) : rs[k].route \in {"send", "sbn"} /\ rs[k].stage = "sendMessage"}

\* a step of /send or /send-by-name in which an adapter call failed: the call
\* threw when it was made, or its promise rejected
CallFailed(o) ==
  \/ o.op \in {"send", "sbn", "sbn.contacts"} /\ o.code = 500 /\ o.call # "none"
  \/ o.op \in {"send.done", "sbn.contacts", "sbn.done"} /\ o.env[1] = "reject"

\* a step of one of the two sending routes
SendingStep(o) == o.op \in {"send", "send.done", "sbn", "sbn.contacts", "sbn.done"}

\* C19: each /send or /send-by-name request issues at most one sendMessage
\* call; when that call (or getContacts) fails the request answers 500 with a
\* failure code, the call is not retried, and isReady, isAuthenticated and
\* lastQR are left unchanged.
C19_AtMostOnceSend ==
  [][/\ SendingStep(last')
         => /\ isReady' = isReady /\ isAuthenticated' = isAuthenticated /\ lastQR' = lastQR
            /\ Cardinality(Sent(reqs')) <= Cardinality(Sent(reqs)) + 1
     \* a request whose sendMessage was issued is answered by its next step
     /\ last'.op \in {"send.done", "sbn.done"}
         => /\ last'.call = "none"
            /\ Len(reqs') = Len(reqs) - 1
            /\ Cardinality(Sent(reqs')) = Cardinality(Sent(reqs)) - 1
     \* sendMessage is issued only by a new /send or after getContacts
     /\ (SendingStep(last') /\ last'.call = "sendMessage")
         => \/ last'.op = "send" /\ Len(reqs') <= Len(reqs) + 1
            \/ last'.op = "sbn.contacts" /\ Len(reqs') <= Len(reqs)
     /\ CallFailed(last')
         => /\ last'.code = 500
            /\ last'.data \in FailureCodes
            /\ Len(reqs') <= Len(reqs)
            /\ Cardinality(Sent(reqs')) <= Cardinality(Sent(reqs))]_vars

C19_Witness ==
  /\ last.op = "send.done" /\ last.env[1] = "reject" /\ last.code = 500
  /\ last.data = <<"send_failed">> /\ isReady /\ reqs = <<>>

\* a timer step whose construction or initialize() failed: o.env lists how
\* the calls of the step ended, in the order they were made
InitFailed(o) ==
  /\ o.op \in {"timerRebuild", "timerReinit", "timerRestart"}
  /\ \E k \in 1..Len(o.env) : o.env[k] # "ok"

\* the calls a timer makes by itself: rebuild constructs and initializes,
\* reinit and restart initialize an instance that exists
OwnCalls(o) == IF o.op = "timerRebuild" THEN 2 ELSE 1

\* C20: a failure of adapter construction or of initialize() leaves the
\* session non-ready and never by itself triggers another initialize or a
\* rebuild: the failing step constructs and initializes nothing beyond the
\* call that failed and sets no timer.
C20_InitFailureInert ==
  [][InitFailed(last')
       => /\ ~isReady'
          /\ Len(last'.env) <= OwnCalls(last')
          /\ last'.op # "timerRebuild" => (client' = client /\ Built' = Built)
          /\ Len(timers') < Len(timers)]_vars

\* the step ended because the Client constructor threw inside
\* initializeClient(): not a failure of initialize() or destroy()
ConstructionThrew(o) ==
  \/ o.op = "timerRebuild" /\ o.env[1] = "throw"
  \/ o.op = "timerReinit" /\ Len(o.env) = 3 /\ o.env[2] = "throw"

\* C21: no failure of initialize() or destroy() called from a lifecycle event
\* handler, a recovery timer callback or /restart escapes unhandled, whether
\* the call throws or its promise rejects.
C21_NoFailureEscapes == crashed => ConstructionThrew(last)

\* the instances on which the step observed as o called initialize() and the
\* call returned; cl is the handle after the step
Begun(o, cl) ==
  IF o.op \in {"timerRestart", "timerReinit"} /\ o.env[1] # "throw" THEN {o.inst}
  ELSE IF o.op = "timerReinit" /\ o.env[2] = "ok" /\ o.env[3] # "throw" THEN {cl}
  ELSE IF o.op = "timerRebuild" /\ o.env[1] = "ok" /\ o.env[2] # "throw" THEN {cl}
  ELSE {}

\* the instances on which the step observed as o called initialize()
CalledOn(o, cl) ==
  IF o.op = "timerRestart" THEN {o.inst}
  ELSE IF o.op = "timerReinit"
       THEN {o.inst} \cup (IF Len(o.env) = 3 /\ o.env[2] = "ok" THEN {cl} ELSE {})
  ELSE IF o.op = "timerRebuild" /\ o.env[1] = "ok" THEN {cl}
  ELSE {}

\* C22: initialize() is never called on an instance that is already
\* initializing or initialized. Stated for two consecutive steps, between
\* which there is no destroy() and no `disconnected` event: the step after
\* one that initialized an instance does not call initialize() on it again,
\* in the runs where no lifecycle call has failed.
C22_InitializeOnce ==
  [][~faulty' => Begun(last, client) \cap CalledOn(last', client') = {}]_vars

\* /send-by-name requests in flight whose name is empty after trimming
EmptyQuery(rs) == {k \in 1..Len(rs) : rs[k].route = "sbn" /\ rs[k].q = <<>>}

\* C23: a /send-by-name request whose name is empty after trimming never
\* causes a message to be sent: it never reaches the sendMessage call.
C23_EmptyNameNeverSends ==
  \A k \in EmptyQuery(reqs) : reqs[k].stage # "sendMessage"

====
